---- MODULE Spec2Model ----
(***************************************************************************)
(* A model of the outbound notification queue (queueWhatsAppMessage /      *)
(* processMessageQueue) and of the retry wrapper (sendWhatsAppWithRetry)   *)
(* of services/whatsapp.ts.                                                *)
(*                                                                         *)
(* The program runs on a single-threaded event loop: code between two      *)
(* awaits runs to completion, so every action below is one such segment.   *)
(***************************************************************************)
EXTENDS Integers, Sequences, FiniteSets, TLC

\* ------------------------------------------------------------ bounds
\* Number of queueWhatsAppMessage calls the producers make.
MaxCalls == 3
\* Granularity of the clock, in milliseconds.
TickMs == 500
\* Largest maxRetries a caller passes to sendWhatsAppWithRetry.
MaxRetryArg == 4

\* Statements the DatabaseHelper runs in one behaviour.
MaxStmts == 2
\* Largest reading of the store's clock (CURRENT_TIMESTAMP).
MaxTime == 1
\* Number of requests to POST /api/inquiries and POST /api/sell.
MaxReqs == 2

\* --------------------------------------------------------- constants
\* const MESSAGE_RATE_LIMIT = 1000; // 1 message per second
MESSAGE_RATE_LIMIT == 1000
\* const RATE_LIMIT_DELAY = 1000; // 1 second
RATE_LIMIT_DELAY == 1000

Calls == 1..MaxCalls

\* What a queued job does when it is run: resolve, reject with the
\* provider's error, or reject with the retry wrapper's aggregate error.
JobOutcomes == {"ok", "SendError", "AggregateSendError"}

Min(a, b) == IF a < b THEN a ELSE b
Max(a, b) == IF a > b THEN a ELSE b
Range(s) == {s[i] : i \in 1..Len(s)}

VARIABLES
  messageQueue,       \* const messageQueue: the pending jobs, head first
  isProcessingQueue,  \* let isProcessingQueue
  pc,                 \* per call of queueWhatsAppMessage: where it is suspended
  cur,                \* per call: the job its drain loop is awaiting (0: none)
  timer,              \* per call: milliseconds left of its setTimeout
  outcome,            \* per job: what the job does ("none": not enqueued yet)
  nCalls,             \* calls made so far; the k-th call enqueues job k
  started,            \* history: jobs in the order their execution started
  ended,              \* history: jobs whose promise has settled
  owners,             \* history: calls that entered processMessageQueue
  waits,              \* history: inter-job delays that ran to their end
  gap,                \* clock: ms since a job last ended, cut at the rate limit
  lastStartGap,       \* history: the value of gap when a job last started
  elapsed             \* clock: ms since the first enqueue, cut at ElapsedCap

qvars == <<messageQueue, isProcessingQueue, pc, cur, timer, outcome, nCalls,
           started, ended, owners, waits, gap, lastStartGap, elapsed>>

VARIABLES
  rpc,         \* per caller: "new", "sending", "backoff", "returned", "threw"
  maxRetries,  \* per caller: the argument maxRetries
  attempt,     \* per caller: the loop variable attempt
  rtimer,      \* per caller: milliseconds left of the backoff setTimeout
  lastError,   \* per caller: let lastError (0: null; k: the error of attempt k)
  result,      \* per caller: the response returned (0: none; k: attempt k's)
  thrown,      \* per caller: the error the final throw reports (-1: no throw;
               \*   0: lastError was null; k: the message of attempt k's error)
  sends,       \* history: calls of sendWhatsAppMessage made
  waitTimes,   \* history: the waitTime of each backoff, in order
  sinceFail,   \* clock: ms since the last failed attempt, cut at its waitTime
  gaps         \* history: sinceFail at the start of each later attempt

rvars == <<rpc, maxRetries, attempt, rtimer, lastError, result, thrown, sends,
           waitTimes, sinceFail, gaps>>

VARIABLES
  db,               \* per table: its rows, in rowid order
  autoinc,          \* per table: the largest id AUTOINCREMENT has given out
  lastInsertRowId,  \* this.db.lastInsertRowId
  dnow,             \* the store's clock
  stmts,            \* history: statements run so far
  lastOp            \* history: the last DatabaseHelper call and what it gave

dvars == <<db, autoinc, lastInsertRowId, dnow, stmts, lastOp>>

VARIABLES
  lastReq  \* the last HTTP request served, with its response

avars == <<lastReq>>

VARIABLES
  wreq,        \* the last request to a watch route, with its response
  softDeleted  \* history: ids for which DELETE /api/admin/watches/:id succeeded

wvars == <<wreq, softDeleted>>

VARIABLES
  ireq,             \* per request to POST /api/inquiries or /api/sell: where it is
  ibody,            \* the body of the request received last
  inquiries,        \* the rows of table inquiries
  sellSubmissions,  \* the rows of table sell_submissions
  sent              \* history: the notification sends attempted, in order

ivars == <<ireq, ibody, inquiries, sellSubmissions, sent>>

VARIABLES
  tpc,           \* per caller of makeWatchChartsRequest: "idle", "waiting", "fetching"
  ttimer,        \* per caller: milliseconds left of the throttle's setTimeout
  sinceRequest,  \* Date.now() - lastRequestTime, cut at RATE_LIMIT_DELAY
  issueGap       \* history: sinceRequest when the last request was issued

tvars == <<tpc, ttimer, sinceRequest, issueGap>>

vars == <<qvars, rvars, dvars, avars, wvars, ivars, tvars>>

\* What an action of one component leaves alone: the other components.
OtherThanQueue == UNCHANGED <<rvars, dvars, avars, wvars, ivars, tvars>>
OtherThanRetry == UNCHANGED <<qvars, dvars, avars, wvars, ivars, tvars>>
OtherThanStore == UNCHANGED <<qvars, rvars, avars, wvars, ivars, tvars>>
OtherThanRoutes == UNCHANGED <<qvars, rvars, wvars, ivars, tvars>>
OtherThanWatches == UNCHANGED <<qvars, rvars, avars, ivars, tvars>>
OtherThanInquiries == UNCHANGED <<qvars, rvars, dvars, avars, wvars, tvars>>
OtherThanThrottle == UNCHANGED <<qvars, rvars, dvars, avars, wvars, ivars>>

ElapsedCap == 2 * MESSAGE_RATE_LIMIT

\* ------------------------------------------------- the code's pieces
\* messageQueue.shift(): the element it returns ...
QueueHeadLast(q) == q[Len(q)]
QueueHead(q) == Head(q)

\* ... and what it leaves in the array.
QueueShiftKeeps(q) == q
QueueShift(q) == Tail(q)

\* if (!isProcessingQueue) await processMessageQueue();
StartsDrainAlways(flag) == TRUE
StartsDrain(flag) == ~flag

\* catch (error) { console.error(...) }: the clause catches every error.
CatchesNothing(o) == FALSE
Catches(o) == TRUE

\* isProcessingQueue = false; after the loop.
FlagAfterDrainStuck == TRUE
FlagAfterDrain == FALSE

\* setTimeout(resolve, MESSAGE_RATE_LIMIT)
HalfDelay == MESSAGE_RATE_LIMIT \div 2
DrainDelay == MESSAGE_RATE_LIMIT

Active == {c \in Calls : pc[c] \in {"awaitJob", "awaitTimer"}}

QInit ==
  /\ messageQueue = <<>>
  /\ isProcessingQueue = FALSE
  /\ pc = [c \in Calls |-> "new"]
  /\ cur = [c \in Calls |-> 0]
  /\ timer = [c \in Calls |-> 0]
  /\ outcome = [j \in Calls |-> "none"]
  /\ nCalls = 0
  /\ started = <<>>
  /\ ended = {}
  /\ owners = {}
  /\ waits = 0
  /\ gap = MESSAGE_RATE_LIMIT
  /\ lastStartGap = MESSAGE_RATE_LIMIT
  /\ elapsed = 0

\* One evaluation of the while condition of processMessageQueue by call c,
\* with q the pending jobs, flag the value of isProcessingQueue and g the
\* clock at that moment: either the head job is removed and invoked (the
\* loop suspends at `await messageFunction()`), or the loop ends, the flag
\* is cleared and the call's promise resolves.
LoopStep(c, q, flag, g) ==
  IF Len(q) > 0
  THEN /\ messageQueue' = QueueShift(q)
       /\ cur' = [cur EXCEPT ![c] = QueueHead(q)]
       /\ pc' = [pc EXCEPT ![c] = "awaitJob"]
       /\ started' = Append(started, QueueHead(q))
       /\ lastStartGap' = g
       /\ isProcessingQueue' = flag
  ELSE /\ messageQueue' = q
       /\ cur' = [cur EXCEPT ![c] = 0]
       /\ pc' = [pc EXCEPT ![c] = "returned"]
       /\ started' = started
       /\ lastStartGap' = lastStartGap
       /\ isProcessingQueue' = FlagAfterDrain

\* queueWhatsAppMessage(messageFunction): push, then either run
\* processMessageQueue up to its first await or return at once.
Enqueue(c, o) ==
  /\ OtherThanQueue
  /\ c = nCalls + 1
  /\ pc[c] = "new"
  /\ nCalls' = c
  /\ outcome' = [outcome EXCEPT ![c] = o]
  /\ IF StartsDrain(isProcessingQueue)
     THEN /\ owners' = owners \cup {c}
          /\ LoopStep(c, Append(messageQueue, c), TRUE, gap)
     ELSE /\ messageQueue' = Append(messageQueue, c)
          /\ pc' = [pc EXCEPT ![c] = "returned"]
          /\ UNCHANGED <<isProcessingQueue, cur, started, lastStartGap, owners>>
  /\ UNCHANGED <<timer, ended, waits, gap, elapsed>>

\* The awaited job resolves: the loop goes on to the setTimeout.
JobResolves(c) ==
  /\ OtherThanQueue
  /\ pc[c] = "awaitJob"
  /\ outcome[cur[c]] = "ok"
  /\ ended' = ended \cup {cur[c]}
  /\ gap' = 0
  /\ pc' = [pc EXCEPT ![c] = "awaitTimer"]
  /\ timer' = [timer EXCEPT ![c] = DrainDelay]
  /\ UNCHANGED <<messageQueue, isProcessingQueue, cur, outcome, nCalls,
                 started, owners, waits, lastStartGap, elapsed>>

\* The awaited job rejects: the catch clause logs the error and the loop
\* evaluates its condition again, without the setTimeout. An error the
\* clause did not catch would reject the call and leave the loop.
JobRejects(c) ==
  /\ OtherThanQueue
  /\ pc[c] = "awaitJob"
  /\ outcome[cur[c]] \in JobOutcomes \ {"ok"}
  /\ ended' = ended \cup {cur[c]}
  /\ gap' = 0
  /\ IF Catches(outcome[cur[c]])
     THEN LoopStep(c, messageQueue, isProcessingQueue, 0)
     ELSE /\ pc' = [pc EXCEPT ![c] = "rejected"]
          /\ cur' = [cur EXCEPT ![c] = 0]
          /\ UNCHANGED <<messageQueue, isProcessingQueue, started, lastStartGap>>
  /\ UNCHANGED <<timer, outcome, nCalls, owners, waits, elapsed>>

\* The setTimeout of the loop fires: the loop evaluates its condition.
TimerFires(c) ==
  /\ OtherThanQueue
  /\ pc[c] = "awaitTimer"
  /\ timer[c] = 0
  /\ waits' = waits + 1
  /\ LoopStep(c, messageQueue, isProcessingQueue, gap)
  /\ UNCHANGED <<timer, outcome, nCalls, ended, owners, gap, elapsed>>

\* Time passes. A timer may fire late, never early.
QTick ==
  /\ OtherThanQueue
  /\ timer' = [c \in Calls |->
                 IF pc[c] = "awaitTimer" THEN Max(0, timer[c] - TickMs) ELSE timer[c]]
  /\ gap' = Min(MESSAGE_RATE_LIMIT, gap + TickMs)
  /\ elapsed' = IF nCalls > 0 THEN Min(ElapsedCap, elapsed + TickMs) ELSE elapsed
  /\ UNCHANGED <<messageQueue, isProcessingQueue, pc, cur, outcome, nCalls,
                 started, ended, owners, waits, lastStartGap>>

QNext ==
  \/ \E c \in Calls, o \in JobOutcomes : Enqueue(c, o)
  \/ \E c \in Calls : JobResolves(c)
  \/ \E c \in Calls : JobRejects(c)
  \/ \E c \in Calls : TimerFires(c)
  \/ QTick

\* ------------------------------------------------ sendWhatsAppWithRetry
\* Two callers, so that calls of the wrapper can run side by side.
RetryCallers == {1, 2}
\* The values of maxRetries the callers pass (none is excluded by the code).
RetryArgs == -1..MaxRetryArg


\* for (let attempt = 1; attempt <= maxRetries; attempt++): the condition
\* reads the call's own variables only, not what other calls are doing.
LoopAtLeastOnce(a, n) == a <= n \/ a = 1
LoopWaitsForOthers(a, n) == a <= n /\ \A v \in RetryCallers : rpc[v] # "sending"
LoopContinues(a, n) == a <= n

\* if (attempt < maxRetries)
ShouldWait(a, n) == a < n

\* const waitTime = Math.pow(2, attempt) * 1000;
BackoffLinearMs(a) == 2 * a * 1000
BackoffMs(a) == (2 ^ a) * 1000

\* return await sendWhatsAppMessage(to, message, mediaUrl);
KeepsLooping == FALSE
ReturnsOnSuccess == TRUE

\* Last error: ${lastError?.message}
FirstError(le) == Min(le, 1)
ReportedError(le) == le

RInit ==
  /\ rpc = [w \in RetryCallers |-> "new"]
  /\ maxRetries = [w \in RetryCallers |-> 0]
  /\ attempt = [w \in RetryCallers |-> 0]
  /\ rtimer = [w \in RetryCallers |-> 0]
  /\ lastError = [w \in RetryCallers |-> 0]
  /\ result = [w \in RetryCallers |-> 0]
  /\ thrown = [w \in RetryCallers |-> -1]
  /\ sends = [w \in RetryCallers |-> 0]
  /\ waitTimes = [w \in RetryCallers |-> <<>>]
  /\ sinceFail = [w \in RetryCallers |-> 0]
  /\ gaps = [w \in RetryCallers |-> <<>>]

\* The loop condition with attempt = a: the next sendWhatsAppMessage is
\* called, or the loop is left and the aggregate error is thrown.
RLoop(w, a, n, le) ==
  /\ attempt' = [attempt EXCEPT ![w] = a]
  /\ IF LoopContinues(a, n)
     THEN /\ rpc' = [rpc EXCEPT ![w] = "sending"]
          /\ sends' = [sends EXCEPT ![w] = @ + 1]
          /\ thrown' = thrown
     ELSE /\ rpc' = [rpc EXCEPT ![w] = "threw"]
          /\ sends' = sends
          /\ thrown' = [thrown EXCEPT ![w] = ReportedError(le)]

\* sendWhatsAppWithRetry(to, message, n) is called.
RCall(w, n) ==
  /\ OtherThanRetry
  /\ rpc[w] = "new"
  /\ maxRetries' = [maxRetries EXCEPT ![w] = n]
  /\ RLoop(w, 1, n, 0)
  /\ UNCHANGED <<rtimer, lastError, result, waitTimes, sinceFail, gaps>>

\* The provider send resolves: `return await sendWhatsAppMessage(...)`
\* returns its response and leaves the loop. (Without the return the
\* response would be dropped and the loop would go on to attempt++.)
RSendOk(w) ==
  /\ OtherThanRetry
  /\ rpc[w] = "sending"
  /\ IF ReturnsOnSuccess
     THEN /\ rpc' = [rpc EXCEPT ![w] = "returned"]
          /\ result' = [result EXCEPT ![w] = attempt[w]]
          /\ UNCHANGED <<attempt, thrown, sends>>
     ELSE /\ RLoop(w, attempt[w] + 1, maxRetries[w], lastError[w])
          /\ result' = result
  /\ UNCHANGED <<maxRetries, rtimer, lastError, waitTimes, sinceFail, gaps>>

\* The provider send rejects: the error is kept, and the wrapper either
\* sets its backoff timer or goes straight to the loop condition.
RSendFails(w) ==
  /\ OtherThanRetry
  /\ rpc[w] = "sending"
  /\ lastError' = [lastError EXCEPT ![w] = attempt[w]]
  /\ IF ShouldWait(attempt[w], maxRetries[w])
     THEN /\ rpc' = [rpc EXCEPT ![w] = "backoff"]
          /\ rtimer' = [rtimer EXCEPT ![w] = BackoffMs(attempt[w])]
          /\ waitTimes' = [waitTimes EXCEPT ![w] = Append(@, BackoffMs(attempt[w]))]
          /\ sinceFail' = [sinceFail EXCEPT ![w] = 0]
          /\ UNCHANGED <<attempt, sends, thrown>>
     ELSE /\ RLoop(w, attempt[w] + 1, maxRetries[w], attempt[w])
          /\ UNCHANGED <<rtimer, waitTimes, sinceFail>>
  /\ UNCHANGED <<maxRetries, result, gaps>>

\* The backoff timer fires: attempt++ and the loop condition.
RTimerFires(w) ==
  /\ OtherThanRetry
  /\ rpc[w] = "backoff"
  /\ rtimer[w] = 0
  /\ gaps' = [gaps EXCEPT ![w] = Append(@, sinceFail[w])]
  /\ RLoop(w, attempt[w] + 1, maxRetries[w], lastError[w])
  /\ UNCHANGED <<maxRetries, rtimer, lastError, result, waitTimes, sinceFail>>

\* Time passes.
RTick ==
  /\ OtherThanRetry
  /\ \E w \in RetryCallers : rpc[w] = "backoff" /\ rtimer[w] > 0
  /\ rtimer' = [w \in RetryCallers |->
                  IF rpc[w] = "backoff" THEN Max(0, rtimer[w] - TickMs) ELSE rtimer[w]]
  /\ sinceFail' = [w \in RetryCallers |->
                     IF rpc[w] = "backoff"
                     THEN Min(waitTimes[w][Len(waitTimes[w])], sinceFail[w] + TickMs)
                     ELSE sinceFail[w]]
  /\ UNCHANGED <<rpc, maxRetries, attempt, lastError, result, thrown, sends,
                 waitTimes, gaps>>

RNext ==
  \/ \E w \in RetryCallers, n \in RetryArgs : RCall(w, n)
  \/ \E w \in RetryCallers : RSendOk(w)
  \/ \E w \in RetryCallers : RSendFails(w)
  \/ \E w \in RetryCallers : RTimerFires(w)
  \/ RTick


\* ------------------------------------------------------ DatabaseHelper
\* A value is a pair of its storage class and its text: NULL, the integer
\* 4200 and the text '4200' are three values.
NULL == <<"null", "">>
I(x) == <<"integer", x>>
T(x) == <<"text", x>>

\* Texts the store reads as an integer literal.
Numerals == {"1", "2", "3", "4", "5", "6", "7", "8", "9", "4000", "4200", "12500"}
\* The text of an id, and of a reading of the clock.
IdName == <<"1", "2", "3", "4", "5", "6", "7", "8", "9">>
TimeName == <<"t0", "t1", "t2", "t3", "t4">>
Timestamp(t) == T(TimeName[t + 1])

\* CREATE TABLE watches / admin_users: the columns kept are id, two NOT
\* NULL data columns, and the columns with a default; the tables' other
\* columns repeat one of these kinds.
Tables == {"watches", "admin_users"}
Columns(t) ==
  IF t = "watches"
  THEN {"id", "brand", "price", "status", "updated_at"}
  ELSE {"id", "username", "password_hash", "last_login"}
ColType(c) ==
  CASE c \in {"id", "price"} -> "INTEGER"
    [] c \in {"brand", "status", "username", "password_hash"} -> "TEXT"
    [] OTHER -> "NUMERIC"
NotNull(t) == IF t = "watches" THEN {"brand", "price"} ELSE {"username", "password_hash"}
Unique(t) == IF t = "watches" THEN {"id"} ELSE {"id", "username"}
\* The value of a column the INSERT does not name.
Default(c, id, now) ==
  CASE c = "id" -> I(IdName[id])
    [] c = "status" -> T("available")
    [] c = "updated_at" -> Timestamp(now)
    [] OTHER -> NULL

\* The store converts a value to the affinity of the column it is stored
\* in or compared with: integer-looking text becomes an integer in an
\* INTEGER or NUMERIC column, an integer becomes text in a TEXT column.
AffinityAllText(type, v) == IF v[1] = "integer" THEN T(v[2]) ELSE v
Affinity(type, v) ==
  IF v[1] = "text" /\ type \in {"INTEGER", "NUMERIC"} /\ v[2] \in Numerals
  THEN I(v[2])
  ELSE IF v[1] = "integer" /\ type = "TEXT" THEN T(v[2]) ELSE v

\* WHERE c1 = ? AND c2 = ? ...: a predicate is a set of <<column, value>>.
Matches(row, pred) ==
  \A q \in pred : row[q[1]] # NULL /\ row[q[1]] = Affinity(ColType(q[1]), q[2])
Matching(rows, pred) == {i \in 1..Len(rows) : Matches(rows[i], pred)}

\* A constraint of table t that the rows would violate.
Violation(t, rows) ==
  \/ \E i \in 1..Len(rows), c \in NotNull(t) : rows[i][c] = NULL
  \/ \E i, k \in 1..Len(rows), c \in Unique(t) :
       i # k /\ rows[i][c] # NULL /\ rows[i][c] = rows[k][c]

\* selectOne: `SELECT * FROM t WHERE pred LIMIT 1` and .get(params): the
\* first matching row, or undefined (here the empty sequence).
SelectLast(rows, pred) ==
  IF Matching(rows, pred) = {} THEN <<>>
  ELSE <<rows[CHOOSE i \in Matching(rows, pred) : \A k \in Matching(rows, pred) : k <= i]>>
SelectOne(rows, pred) ==
  IF Matching(rows, pred) = {} THEN <<>>
  ELSE <<rows[CHOOSE i \in Matching(rows, pred) : \A k \in Matching(rows, pred) : i <= k]>>

\* insert: the columns of `INSERT INTO t (keys) VALUES (?, ...)`.
InsertColumnsPlusStamp(data) == DOMAIN data \cup {"updated_at"}
InsertColumns(data) == DOMAIN data

\* update: the columns of `SET k = ?, ..., updated_at = CURRENT_TIMESTAMP`.
UpdateColumnsNoStamp(data) == DOMAIN data
UpdateColumns(data) == DOMAIN data \cup {"updated_at"}

\* The row an INSERT of data makes, with id the next id of the table.
InsertedRow(t, data, id, now) ==
  [c \in Columns(t) |->
     IF c \in InsertColumns(data) /\ c \in DOMAIN data
     THEN Affinity(ColType(c), data[c])
     ELSE IF c \in InsertColumns(data) THEN Timestamp(now)
     ELSE Default(c, id, now)]

\* The statement compiles: every column it names is a column of the
\* table, and its column list is not empty.
InsertCompiles(t, data) == DOMAIN data # {} /\ InsertColumns(data) \subseteq Columns(t)
UpdateCompiles(t, data) == DOMAIN data # {} /\ UpdateColumns(data) \subseteq Columns(t)

\* The rows after `UPDATE t SET ... WHERE pred`.
UpdatedRowsEverywhere(rows, data, pred, now) ==
  [i \in 1..Len(rows) |->
     [c \in DOMAIN rows[i] |->
        IF c \in DOMAIN data THEN Affinity(ColType(c), data[c])
        ELSE IF c = "updated_at" THEN Timestamp(now)
        ELSE rows[i][c]]]
UpdatedRows(rows, data, pred, now) ==
  [i \in 1..Len(rows) |->
     IF Matches(rows[i], pred)
     THEN [c \in DOMAIN rows[i] |->
             IF c \in UpdateColumns(data) /\ c \in DOMAIN data
             THEN Affinity(ColType(c), data[c])
             ELSE IF c \in UpdateColumns(data) THEN Timestamp(now)
             ELSE rows[i][c]]
     ELSE rows[i]]

\* The rows after `DELETE FROM t WHERE pred`.
DeletedRows(rows, pred) == SelectSeq(rows, LAMBDA r : ~Matches(r, pred))

\* return changes > 0;
ChangedAlways(changes) == TRUE
Changed(changes) == changes > 0

\* insert runs its statement once, whatever comes of it.
RunsTwiceOnError(ok) == IF ok THEN 1 ELSE 2
InsertRuns(ok) == 1

\* What the callers pass: rows over the data columns, and predicates.
DataCols(t) == IF t = "watches" THEN {"brand", "price"} ELSE {"username", "password_hash"}
Vals(t) ==
  IF t = "watches"
  THEN {I("4000"), T("4200")}
  ELSE {T("admin"), T("bob")}
DataFor(t) == UNION {[K -> Vals(t)] : K \in SUBSET DataCols(t)}
Preds(t) ==
  IF t = "watches"
  THEN {{<<"id", T("2")>>, <<"status", T("available")>>},
        {<<"status", T("available")>>}, {<<"id", I("9")>>}}
  ELSE {{<<"username", T("admin")>>}, {<<"id", I("9")>>}}
EmptyRow == [c \in {} |-> NULL]

\* A row of the sample data initializeDatabase inserts.
Watch(id, brand, price) ==
  [c \in Columns("watches") |->
     CASE c = "id" -> I(id) [] c = "brand" -> T(brand) [] c = "price" -> I(price)
       [] c = "status" -> T("available") [] OTHER -> Timestamp(0)]
AdminUser(id, username, hash) ==
  [c \in Columns("admin_users") |->
     CASE c = "id" -> I(id) [] c = "username" -> T(username)
       [] c = "password_hash" -> T(hash) [] OTHER -> NULL]

\* The store after initializeDatabase ran on a new file: the four sample
\* watches, the default admin (password_hash = btoa("admin123")), and the
\* four settings rows, the last rows inserted.
SeededDb ==
  [t \in Tables |->
     IF t = "watches"
     THEN <<Watch("1", "Rolex", "12500"), Watch("2", "Omega", "4200"),
            Watch("3", "Patek Philippe", "28500"), Watch("4", "Audemars Piguet", "22000")>>
     ELSE <<AdminUser("1", "admin", "YWRtaW4xMjM=")>>]

NoOp ==
  [op |-> "none", table |-> "", data |-> EmptyRow, pred |-> {}, threw |-> FALSE,
   retBool |-> FALSE, retId |-> NULL, retRow |-> <<>>, runs |-> 0, cols |-> {}]

DInit ==
  /\ db = SeededDb
  /\ autoinc = [t \in Tables |-> Len(SeededDb[t])]
  /\ lastInsertRowId = I("4")
  /\ dnow = 0
  /\ stmts = 0
  /\ lastOp = NoOp

\* CURRENT_TIMESTAMP as a statement on table t can read it: never earlier
\* than the latest timestamp already written.
Stamps(t) == IF "updated_at" \in Columns(t) THEN dnow..MaxTime ELSE {dnow}

\* helper.insert(t, data): the statement either adds the row and the
\* store's lastInsertRowId is returned, or throws and changes nothing.
DInsert(t, data) ==
  /\ OtherThanStore
  /\ stmts < MaxStmts
  /\ \E now \in Stamps(t) :
       LET row == InsertedRow(t, data, autoinc[t] + 1, now)
           ok == InsertCompiles(t, data) /\ ~Violation(t, Append(db[t], row))
       IN /\ stmts' = stmts + InsertRuns(ok)
          /\ dnow' = IF ok THEN now ELSE dnow
          /\ db' = IF ok THEN [db EXCEPT ![t] = Append(@, row)] ELSE db
          /\ autoinc' = IF ok THEN [autoinc EXCEPT ![t] = @ + 1] ELSE autoinc
          /\ lastInsertRowId' = IF ok THEN row["id"] ELSE lastInsertRowId
          /\ lastOp' = [NoOp EXCEPT !.op = "insert", !.table = t, !.data = data,
                          !.threw = ~ok, !.runs = InsertRuns(ok),
                          !.cols = InsertColumns(data),
                          !.retId = IF ok THEN row["id"] ELSE NULL]

\* helper.update(t, data, where, whereParams)
DUpdate(t, data, pred) ==
  /\ OtherThanStore
  /\ stmts < MaxStmts
  /\ stmts' = stmts + 1
  /\ \E now \in Stamps(t) :
       LET rows == UpdatedRows(db[t], data, pred, now)
           ok == UpdateCompiles(t, data) /\ ~Violation(t, rows)
       IN /\ db' = IF ok THEN [db EXCEPT ![t] = rows] ELSE db
          /\ dnow' = IF ok /\ rows # db[t] THEN now ELSE dnow
          /\ lastOp' = [NoOp EXCEPT !.op = "update", !.table = t, !.data = data,
                          !.pred = pred, !.threw = ~ok, !.runs = 1,
                          !.cols = UpdateColumns(data),
                          !.retBool = ok /\ Changed(Cardinality(Matching(db[t], pred)))]
  /\ UNCHANGED <<autoinc, lastInsertRowId>>

\* helper.delete(t, where, params)
DDelete(t, pred) ==
  /\ OtherThanStore
  /\ stmts < MaxStmts
  /\ stmts' = stmts + 1
  /\ db' = [db EXCEPT ![t] = DeletedRows(@, pred)]
  /\ lastOp' = [NoOp EXCEPT !.op = "delete", !.table = t, !.pred = pred, !.runs = 1,
                  !.retBool = Changed(Cardinality(Matching(db[t], pred)))]
  /\ UNCHANGED <<autoinc, lastInsertRowId, dnow>>

\* helper.selectOne(t, where, params)
DSelectOne(t, pred) ==
  /\ OtherThanStore
  /\ stmts < MaxStmts
  /\ stmts' = stmts + 1
  /\ lastOp' = [NoOp EXCEPT !.op = "selectOne", !.table = t, !.pred = pred, !.runs = 1,
                  !.retRow = SelectOne(db[t], pred)]
  /\ UNCHANGED <<db, autoinc, lastInsertRowId, dnow>>

DNext ==
  \/ \E t \in Tables : \E data \in DataFor(t) : DInsert(t, data)
  \/ \E t \in Tables : \E data \in DataFor(t), pred \in Preds(t) : DUpdate(t, data, pred)
  \/ \E t \in Tables : \E pred \in Preds(t) : DDelete(t, pred)
  \/ \E t \in Tables : \E pred \in Preds(t) : DSelectOne(t, pred)

\* ------------------------------------- /api/auth/login, authMiddleware
\* btoa on the passwords the clients send.
Passwords == {"", "admin123", "wrong"}
Usernames == {"", "admin", "bob"}
Btoa(p) ==
  CASE p = "admin123" -> "YWRtaW4xMjM="
    [] p = "wrong" -> "d3Jvbmc="
    [] OTHER -> ""

\* An Authorization header: absent, of another scheme, or `Bearer <token>`
\* where the token is the text admin-token, a text that is no JWT, or a JWT
\* (its signature made with JWT_SECRET or not, its exp claim, its sub claim).
Hdr(scheme, token, signed, exp, sub) ==
  [scheme |-> scheme, token |-> token, signed |-> signed, exp |-> exp, sub |-> sub]
Subjects == {I("1"), I("2")}
Headers ==
  {Hdr("none", "", FALSE, "absent", NULL),
   Hdr("Basic", "admin-token", FALSE, "absent", NULL),
   Hdr("Bearer", "admin-token", FALSE, "absent", NULL),
   Hdr("Bearer", "invalid-token", FALSE, "absent", NULL)}
  \cup {Hdr("Bearer", "jwt", s, e, u) :
          s \in BOOLEAN, e \in {"absent", "past", "future"}, u \in Subjects}

\* verify(token, JWT_SECRET) throws for a text that is no JWT, for a
\* signature not made with the key, and for an exp claim in the past.
VerifyThrows(h) == h.token # "jwt" \/ ~h.signed \/ h.exp = "past"
\* payload.exp && payload.exp < now
Expired(h) == h.exp = "past"

\* `if (token === "admin-token")`: the branch "for demo purposes".
IsDemoToken(token) == token = "admin-token"

NoReq ==
  [route |-> "none", username |-> "", password |-> "",
   header |-> Hdr("none", "", FALSE, "absent", NULL),
   status |-> 0, token |-> FALSE, invoked |-> FALSE]

AInit == lastReq = NoReq

\* POST /api/auth/login with body {username: u, password: p}.
ALogin(u, p) ==
  /\ OtherThanRoutes
  /\ LET users == db["admin_users"]
         user == SelectOne(users, {<<"username", T(u)>>})
         data == [last_login |-> Timestamp(dnow)]
         rows == IF user = <<>> THEN users
                 ELSE UpdatedRows(users, data, {<<"id", user[1]["id"]>>}, dnow)
         ok == UpdateCompiles("admin_users", data) /\ ~Violation("admin_users", rows)
         status == CASE u = "" \/ p = "" -> 400
                     [] user = <<>> -> 401
                     [] user[1]["password_hash"] # T(Btoa(p)) -> 401
                     [] ~ok -> 500
                     [] OTHER -> 200
     IN /\ db' = IF status = 200 THEN [db EXCEPT !["admin_users"] = rows] ELSE db
        /\ lastReq' = [NoReq EXCEPT !.route = "login", !.username = u, !.password = p,
                         !.status = status, !.token = (status = 200)]
  /\ UNCHANGED <<autoinc, lastInsertRowId, dnow, stmts, lastOp>>

\* A request to a route behind authMiddleware, with header h; the handler
\* behind it, when reached, completes or throws.
AProtected(h, handlerThrows) ==
  /\ OtherThanRoutes
  /\ LET users == db["admin_users"]
         demo == h.scheme = "Bearer" /\ IsDemoToken(h.token)
         user == IF demo THEN SelectOne(users, {<<"username", T("admin")>>})
                 ELSE SelectOne(users, {<<"id", h.sub>>})
         admitted == /\ h.scheme = "Bearer"
                     /\ demo \/ (~VerifyThrows(h) /\ ~Expired(h))
                     /\ user # <<>>
         status == CASE ~admitted -> 401
                     [] ~handlerThrows -> 200
                     [] demo -> 500
                     [] OTHER -> 401
     IN lastReq' = [NoReq EXCEPT !.route = "protected", !.header = h,
                       !.status = status, !.invoked = admitted]
  /\ UNCHANGED dvars

\* The requests, and the admin_users rows the admin routes add and remove.
ANext ==
  \/ \E u \in Usernames, p \in Passwords : ALogin(u, p)
  \/ \E h \in Headers, handlerThrows \in BOOLEAN : AProtected(h, handlerThrows)
  \/ \E data \in DataFor("admin_users") : DInsert("admin_users", data)
  \/ \E pred \in Preds("admin_users") : DDelete("admin_users", pred)


\* ------------------------------------------------------ watch routes
\* ctx.params.id as the clients send it, and parseInt of it ("NaN" when
\* the text does not start with a digit).
IdParams == {"1", "2abc", "9", "abc"}
ParseInt(p) ==
  CASE p = "2abc" -> "2"
    [] p \in Numerals -> p
    [] OTHER -> "NaN"

\* The bodies PUT /api/admin/watches/:id receives, and the updateData it
\* makes of one: `if (body.status) updateData.status = body.status`.
PutBodies ==
  {EmptyRow, [price |-> I("4000")], [status |-> T("available")], [status |-> T("")]}
UpdateData(body) ==
  [k \in {c \in DOMAIN body : c = "status" => body[c] # T("")} |-> body[k]]

\* selectAll(table, where, params): the matching rows, in rowid order.
SelectAll(rows, pred) == SelectSeq(rows, LAMBDA r : Matches(r, pred))

\* The rows the public routes show: `status = ?` with "available".
ShowsEveryWatch == {}
PublicFilter == {<<"status", T("available")>>}

NoWatchReq == [route |-> "none", id |-> "", body |-> EmptyRow, status |-> 0, ids |-> <<>>]

WInit == wreq = NoWatchReq /\ softDeleted = {}

\* helper.update("watches", data, "id = ?", [id]) inside a route, and the
\* status the route answers with.
RouteUpdate(route, id, body, data) ==
  \E now \in Stamps("watches") :
    LET pred == {<<"id", I(id)>>}
        rows == UpdatedRows(db["watches"], data, pred, now)
        ok == UpdateCompiles("watches", data) /\ ~Violation("watches", rows)
        success == ok /\ Changed(Cardinality(Matching(db["watches"], pred)))
    IN /\ db' = IF ok THEN [db EXCEPT !["watches"] = rows] ELSE db
       /\ dnow' = IF ok /\ rows # db["watches"] THEN now ELSE dnow
       /\ wreq' = [NoWatchReq EXCEPT !.route = route, !.id = id, !.body = body,
                     !.status = IF success THEN 200 ELSE 500]
       /\ softDeleted' = IF route = "delete" /\ success
                         THEN softDeleted \cup {id} ELSE softDeleted

\* A route answers without touching the store.
RouteAnswers(route, id, status, ids) ==
  /\ wreq' = [NoWatchReq EXCEPT !.route = route, !.id = id, !.status = status, !.ids = ids]
  /\ UNCHANGED <<db, dnow, softDeleted>>

\* DELETE /api/admin/watches/:id, past authMiddleware.
WDelete(p) ==
  /\ OtherThanWatches
  /\ UNCHANGED <<autoinc, lastInsertRowId, stmts, lastOp>>
  /\ LET id == ParseInt(p)
     IN IF id = "NaN" THEN RouteAnswers("delete", id, 400, <<>>)
        ELSE IF SelectOne(db["watches"], {<<"id", I(id)>>}) = <<>>
        THEN RouteAnswers("delete", id, 404, <<>>)
        ELSE RouteUpdate("delete", id, EmptyRow, [status |-> T("deleted")])

\* PUT /api/admin/watches/:id, past authMiddleware.
WPut(p, body) ==
  /\ OtherThanWatches
  /\ UNCHANGED <<autoinc, lastInsertRowId, stmts, lastOp>>
  /\ LET id == ParseInt(p)
     IN IF id = "NaN" THEN RouteAnswers("put", id, 400, <<>>)
        ELSE IF SelectOne(db["watches"], {<<"id", I(id)>>}) = <<>>
        THEN RouteAnswers("put", id, 404, <<>>)
        ELSE RouteUpdate("put", id, body, UpdateData(body))

\* GET /api/watches
WList ==
  /\ OtherThanWatches
  /\ UNCHANGED <<autoinc, lastInsertRowId, stmts, lastOp>>
  /\ LET watches == SelectAll(db["watches"], PublicFilter)
     IN RouteAnswers("list", "", 200, [i \in 1..Len(watches) |-> watches[i]["id"]])

\* GET /api/watches/:id
WGet(p) ==
  /\ OtherThanWatches
  /\ UNCHANGED <<autoinc, lastInsertRowId, stmts, lastOp>>
  /\ LET id == ParseInt(p)
         watch == SelectOne(db["watches"], {<<"id", I(id)>>} \cup PublicFilter)
     IN IF id = "NaN" THEN RouteAnswers("get", id, 400, <<>>)
        ELSE IF watch = <<>> THEN RouteAnswers("get", id, 404, <<>>)
        ELSE RouteAnswers("get", id, 200, <<watch[1]["id"]>>)

WNext ==
  \/ \E p \in IdParams : WDelete(p)
  \/ \E p \in IdParams, body \in PutBodies : WPut(p, body)
  \/ WList
  \/ \E p \in IdParams : WGet(p)


\* --------------------------------------- POST /api/inquiries, /api/sell
Reqs == 1..MaxReqs
\* const required = [...]: the fields a body must carry (of the six of
\* /api/sell three are kept: the loop treats them all alike).
InquiryRequired == {"customer_name", "customer_email", "message"}
SellRequired == {"customer_phone", "customer_name", "condition"}
\* A body: the required fields it carries with a non-empty value, and its
\* watch_id (NULL when it has none).
Body(route, present, watchId) == [route |-> route, present |-> present, watch_id |-> watchId]
InquiryBodies ==
  {Body("inquiries", f, w) :
     f \in SUBSET InquiryRequired, w \in {NULL, I("0"), T("2"), I("9")}}
SellBodies == {Body("sell", f, NULL) : f \in {SellRequired, {"customer_name"}, {}}}
\* `if (body.watch_id)`, `body.watch_id || null`: what JavaScript takes as true.
Truthy(v) == v \notin {NULL, I("0"), T("")}

\* The status answered once the notification send has settled.
StatusFailsWithSend(ok) == IF ok THEN 201 ELSE 500
StatusAfterSend(ok) == 201

NewReq == [pc |-> "new", route |-> "", status |-> 0, id |-> 0]

IInit ==
  /\ ireq = [r \in Reqs |-> NewReq]
  /\ ibody = Body("", {}, NULL)
  /\ inquiries = <<>>
  /\ sellSubmissions = <<>>
  /\ sent = <<>>

\* The request is answered 400 after validation.
Rejects(r, body) ==
  /\ ireq' = [ireq EXCEPT ![r] = [pc |-> "done", route |-> body.route, status |-> 400, id |-> 0]]
  /\ UNCHANGED <<inquiries, sellSubmissions, sent>>

\* POST /api/inquiries up to `await sendWhatsAppNotification(message)`.
IPost(r, body) ==
  /\ OtherThanInquiries
  /\ ireq[r].pc = "new"
  /\ ibody' = body
  /\ IF InquiryRequired \ body.present # {} THEN Rejects(r, body)
     ELSE IF /\ Truthy(body.watch_id)
             /\ SelectOne(db["watches"], {<<"id", body.watch_id>>} \cup PublicFilter) = <<>>
     THEN Rejects(r, body)
     ELSE LET id == Len(inquiries) + 1
              watchId == IF Truthy(body.watch_id)
                         THEN Affinity("INTEGER", body.watch_id) ELSE NULL
          IN /\ inquiries' = Append(inquiries, [id |-> id, watch_id |-> watchId])
             /\ sent' = Append(sent, [route |-> "inquiries", id |-> id])
             /\ ireq' = [ireq EXCEPT ![r] = [pc |-> "sending", route |-> "inquiries",
                                             status |-> 0, id |-> id]]
             /\ UNCHANGED sellSubmissions

\* POST /api/sell up to `await sendWhatsAppNotification(message)`.
SPost(r, body) ==
  /\ OtherThanInquiries
  /\ ireq[r].pc = "new"
  /\ ibody' = body
  /\ IF SellRequired \ body.present # {} THEN Rejects(r, body)
     ELSE LET id == Len(sellSubmissions) + 1
          IN /\ sellSubmissions' = Append(sellSubmissions, [id |-> id, watch_id |-> NULL])
             /\ sent' = Append(sent, [route |-> "sell", id |-> id])
             /\ ireq' = [ireq EXCEPT ![r] = [pc |-> "sending", route |-> "sell",
                                             status |-> 0, id |-> id]]
             /\ UNCHANGED inquiries

\* The notification send resolves (ok) or rejects: the catch logs the
\* error and the route answers.
NotifySettles(r, ok) ==
  /\ OtherThanInquiries
  /\ ireq[r].pc = "sending"
  /\ ireq' = [ireq EXCEPT ![r].pc = IF ok THEN "done" ELSE "doneUnsent",
                          ![r].status = StatusAfterSend(ok)]
  /\ UNCHANGED <<ibody, inquiries, sellSubmissions, sent>>

INext ==
  \/ \E r \in Reqs, body \in InquiryBodies : IPost(r, body)
  \/ \E r \in Reqs, body \in SellBodies : SPost(r, body)
  \/ \E r \in Reqs, ok \in BOOLEAN : NotifySettles(r, ok)
  \/ WDelete("2abc")


\* ---------------------------------------------- makeWatchChartsRequest
\* Three callers, so that calls can run side by side.
ChartCallers == {1, 2, 3}

\* `if (timeSinceLastRequest < RATE_LIMIT_DELAY)`
MustWait(timeSinceLastRequest) == timeSinceLastRequest < RATE_LIMIT_DELAY

TInit ==
  /\ tpc = [w \in ChartCallers |-> "idle"]
  /\ ttimer = [w \in ChartCallers |-> 0]
  /\ sinceRequest = RATE_LIMIT_DELAY
  /\ issueGap = RATE_LIMIT_DELAY

\* lastRequestTime = Date.now(); and the request goes out.
Issues(w) ==
  /\ tpc' = [tpc EXCEPT ![w] = "fetching"]
  /\ issueGap' = sinceRequest
  /\ sinceRequest' = 0

\* makeWatchChartsRequest is called: it either sets the timer for the rest
\* of the interval or issues its request at once.
TCall(w) ==
  /\ OtherThanThrottle
  /\ tpc[w] = "idle"
  /\ IF MustWait(sinceRequest)
     THEN /\ tpc' = [tpc EXCEPT ![w] = "waiting"]
          /\ ttimer' = [ttimer EXCEPT ![w] = RATE_LIMIT_DELAY - sinceRequest]
          /\ UNCHANGED <<sinceRequest, issueGap>>
     ELSE Issues(w) /\ UNCHANGED ttimer

\* The throttle's timer fires: the caller issues its request.
TTimerFires(w) ==
  /\ OtherThanThrottle
  /\ tpc[w] = "waiting"
  /\ ttimer[w] = 0
  /\ Issues(w)
  /\ UNCHANGED ttimer

\* The request completes, one way or the other.
TDone(w) ==
  /\ OtherThanThrottle
  /\ tpc[w] = "fetching"
  /\ tpc' = [tpc EXCEPT ![w] = "idle"]
  /\ UNCHANGED <<ttimer, sinceRequest, issueGap>>

\* Time passes. A timer may fire late, never early.
TTick ==
  /\ OtherThanThrottle
  /\ sinceRequest' = Min(RATE_LIMIT_DELAY, sinceRequest + TickMs)
  /\ ttimer' = [w \in ChartCallers |->
                  IF tpc[w] = "waiting" THEN Max(0, ttimer[w] - TickMs) ELSE ttimer[w]]
  /\ UNCHANGED <<tpc, issueGap>>

TNext ==
  \/ \E w \in ChartCallers : TCall(w)
  \/ \E w \in ChartCallers : TTimerFires(w)
  \/ \E w \in ChartCallers : TDone(w)
  \/ TTick


\* -------------------------------------------- sendBulkWhatsAppMessages
\* One call of sendBulkWhatsAppMessages with two recipients: its calls of
\* queueWhatsAppMessage are calls 2 and 3, in recipient order; call 1 (and
\* any later call) is another producer's.
BulkCalls == <<2, 3>>
BulkJobs == Range(BulkCalls)

\* `for (const recipient of recipients) { await queueWhatsAppMessage(...) }`:
\* the call for a recipient is made once the call for the one before it has
\* returned or thrown.
BulkAwaitsPrevious(c) ==
  \A k \in 2..Len(BulkCalls) :
    c = BulkCalls[k] => pc[BulkCalls[k - 1]] \in {"returned", "rejected"}

\* queueWhatsAppMessage is called, by the bulk send or by another producer.
BulkEnqueue(c, o) == BulkAwaitsPrevious(c) /\ Enqueue(c, o)

\* results.push({success: true, ...}) is done by a job whose send resolved;
\* results.push({success: false, ...}) by the catch around the await of
\* queueWhatsAppMessage.
SuccessEntries == {j \in BulkJobs : j \in ended /\ outcome[j] = "ok"}
FailureEntries == {c \in BulkJobs : pc[c] = "rejected"}

\* `return results`: the loop is over.
BulkReturned == pc[BulkCalls[Len(BulkCalls)]] \in {"returned", "rejected"}

BNext ==
  \/ \E c \in Calls, o \in JobOutcomes : BulkEnqueue(c, o)
  \/ \E c \in Calls : JobResolves(c)
  \/ \E c \in Calls : JobRejects(c)
  \/ \E c \in Calls : TimerFires(c)
  \/ QTick


\* ---------------------------------------------------- specifications
\* The state after the module is loaded: nothing queued, no call made.
Init == QInit /\ RInit /\ DInit /\ AInit /\ WInit /\ IInit /\ TInit

QueueSpec == Init /\ [][QNext]_vars

RetrySpec == Init /\ [][RNext]_vars

StoreSpec == Init /\ [][DNext]_vars

AuthSpec == Init /\ [][ANext]_vars

WatchSpec == Init /\ [][WNext]_vars

InquirySpec == Init /\ [][INext]_vars

ThrottleSpec == Init /\ [][TNext]_vars

BulkSpec == Init /\ [][BNext]_vars

\* Every job terminates, time passes and the event loop runs every
\* continuation that is ready; producers are free to stop at any time.
QueueFairSpec ==
  /\ QueueSpec
  /\ WF_vars(QTick)
  /\ \A c \in Calls : /\ WF_vars(JobResolves(c))
                      /\ WF_vars(JobRejects(c))
                      /\ WF_vars(TimerFires(c))

\* -------------------------------------------------------- properties
Executing == {c \in Calls : pc[c] = "awaitJob"}
Waiting == {c \in Calls : pc[c] = "awaitTimer"}
Failed == {j \in ended : outcome[j] # "ok"}
Drained ==
  /\ ~isProcessingQueue
  /\ messageQueue = <<>>
  /\ Active = {}
  /\ ended = 1..nCalls

\* C1: jobs start executing in exactly the order in which they were
\* enqueued (the k-th enqueued job is job k), whether they were enqueued
\* when the loop started or while it was running.
C1_Fifo == \A i \in 1..Len(started) : started[i] = i

\* Three jobs run by one drain loop, two of them enqueued while it ran.
C1_Witness == started = <<1, 2, 3>> /\ owners = {1}

\* C2: at most one queued job is executing and at most one inter-job wait
\* is in progress, and never a job together with a wait.
C2_NoOverlap == Cardinality(Executing) + Cardinality(Waiting) <= 1

\* A job is executing while two producers have enqueued behind it.
C2_Witness == Executing = {1} /\ Len(messageQueue) = 2

\* C3: whenever a job starts, at least MESSAGE_RATE_LIMIT ms have passed
\* since the previous job ended, whether that job resolved or rejected.
C3_DelayAfterEveryJob == lastStartGap >= MESSAGE_RATE_LIMIT

\* C4: once a job has failed, every job that was enqueued, before or after
\* the failure, is still executed, and no call is rejected by the failure.
C4_Isolation ==
  /\ [](\A c \in Calls : pc[c] # "rejected")
  /\ \A j \in Calls : (Failed # {} /\ outcome[j] # "none") ~> (j \in ended)

\* Job 1 failed with the aggregate error; job 2 and a job enqueued after
\* the first loop had ended were executed all the same.
C4_Witness ==
  /\ outcome[1] = "AggregateSendError"
  /\ {1, 2, 3} \subseteq ended
  /\ {1, 3} \subseteq owners

\* C5: every job is invoked at most once: it has left the pending sequence
\* when it runs, and a job that failed is never pending again.
C5_AtMostOnce ==
  /\ \A i, k \in 1..Len(started) : i # k => started[i] # started[k]
  /\ Range(started) \cap Range(messageQueue) = {}
  /\ ended \cap Range(messageQueue) = {}

\* A failed job has been discarded and the jobs behind it have run.
C5_Witness == 1 \in Failed /\ Len(started) = 3

C7_SingleDrainLoop ==
  /\ [](/\ Cardinality(Active) <= 1
        /\ isProcessingQueue <=> Active # {})
  /\ [][/\ owners' # owners => ~isProcessingQueue /\ isProcessingQueue'
        /\ (nCalls' # nCalls /\ isProcessingQueue)
             => /\ messageQueue' = Append(messageQueue, nCalls')
                /\ pc'[nCalls'] = "returned"
                /\ Active' = Active]_vars

\* Two producers have enqueued while the loop of the first call runs.
C7_Witness == Active = {1} /\ nCalls = 3 /\ owners = {1}

\* C8: the drain loop ends: from some point on nothing is pending, every
\* enqueued job has been executed and the flag is false again.
C8_Terminates == <>[]Drained

\* A second loop was started by a later enqueue, and has ended too.
C8_Witness == Drained /\ Cardinality(owners) >= 2

\* C9: three jobs, the second throws: once the drain loop has returned,
\* the jobs ran once each in order and two delays of the loop have run to
\* their end, so at least 2 x MESSAGE_RATE_LIMIT ms have passed.
C9_Scenario ==
  (/\ nCalls = 3
   /\ outcome[1] = "ok" /\ outcome[2] \in {"SendError", "AggregateSendError"}
   /\ outcome[3] = "ok"
   /\ Drained)
  => /\ started = <<1, 2, 3>>
     /\ waits >= 2
     /\ elapsed >= 2 * MESSAGE_RATE_LIMIT

\* The scenario, drained by a single loop.
C9_Witness ==
  /\ nCalls = 3 /\ Drained /\ owners = {1}
  /\ outcome[1] = "ok" /\ outcome[2] = "SendError" /\ outcome[3] = "ok"

\* C10: with maxRetries = n >= 1 and every send failing, exactly n sends
\* are made; failed attempt k < n is followed by a wait of 2^k seconds
\* that runs to its end before attempt k+1, and the n-th by no wait.
C10_Backoff ==
  \A w \in RetryCallers :
    (rpc[w] # "new" /\ maxRetries[w] >= 1)
      => /\ sends[w] <= maxRetries[w]
         /\ Len(waitTimes[w]) = Min(lastError[w], maxRetries[w] - 1)
         /\ \A k \in 1..Len(waitTimes[w]) : waitTimes[w][k] = (2 ^ k) * 1000
         /\ \A k \in 1..Len(gaps[w]) : gaps[w][k] >= (2 ^ k) * 1000
         /\ rpc[w] = "backoff"
              => sends[w] = lastError[w] /\ Len(gaps[w]) = lastError[w] - 1
         /\ rpc[w] \in {"sending", "returned"}
              => sends[w] = lastError[w] + 1 /\ Len(gaps[w]) = lastError[w]
         /\ rpc[w] = "threw"
              => /\ sends[w] = maxRetries[w]
                 /\ lastError[w] = maxRetries[w]
                 /\ Len(gaps[w]) = maxRetries[w] - 1

\* Four attempts failed, after waits of 2 s, 4 s and 8 s.
C10_Witness ==
  \E w \in RetryCallers :
    /\ rpc[w] = "threw" /\ maxRetries[w] = 4 /\ sends[w] = 4
    /\ gaps[w] = <<2000, 4000, 8000>>

\* C11: if attempt k succeeds, the wrapper returns that attempt's response
\* after exactly k provider calls, with no backoff after attempt k (k - 1
\* waits in all, one after each failure) and no attempt k + 1, ever after;
\* a send that resolves makes the wrapper return at once.
C11_EarlySuccess ==
  /\ [](\A w \in RetryCallers :
          rpc[w] = "returned"
            => /\ attempt[w] <= maxRetries[w]
               /\ result[w] = attempt[w]
               /\ sends[w] = attempt[w]
               /\ lastError[w] = attempt[w] - 1
               /\ Len(waitTimes[w]) = attempt[w] - 1
               /\ Len(gaps[w]) = attempt[w] - 1
               /\ thrown[w] = -1)
  /\ [][/\ \A w \in RetryCallers :
            rpc[w] = "returned"
              => /\ rpc'[w] = "returned"
                 /\ sends'[w] = sends[w]
                 /\ waitTimes'[w] = waitTimes[w]
                 /\ result'[w] = result[w]
       /\ \A w \in RetryCallers :
            (/\ rpc[w] = "sending"
             /\ lastError'[w] = lastError[w]
             /\ <<rpc'[w], attempt'[w], sends'[w]>> # <<rpc[w], attempt[w], sends[w]>>)
              => /\ rpc'[w] = "returned"
                 /\ result'[w] = attempt[w]
                 /\ sends'[w] = sends[w]]_vars

\* Attempt 2 of 3 succeeded: two sends, one wait (after attempt 1).
C11_Witness ==
  \E w \in RetryCallers :
    /\ rpc[w] = "returned" /\ maxRetries[w] = 3 /\ result[w] = 2
    /\ sends[w] = 2 /\ waitTimes[w] = <<2000>>

\* C12: when all n >= 1 attempts fail, the call throws one error that
\* carries the message of the last attempt's error, and returns no result.
C12_AggregateError ==
  \A w \in RetryCallers :
    /\ (rpc[w] = "threw" /\ maxRetries[w] >= 1)
         => /\ thrown[w] = maxRetries[w]
            /\ thrown[w] = lastError[w]
            /\ result[w] = 0
    /\ (rpc[w] # "threw") => thrown[w] = -1

\* Three attempts failed; the error thrown reports the third one's message.
C12_Witness ==
  \E w \in RetryCallers :
    rpc[w] = "threw" /\ maxRetries[w] = 3 /\ sends[w] = 3 /\ thrown[w] = 3

\* ---- DatabaseHelper
InsertedOk == lastOp.op = "insert" /\ ~lastOp.threw
\* selectOne(lastOp.table, "id = ?", [the id insert returned]), on the store as it is.
SelectInserted == SelectOne(db[lastOp.table], {<<"id", lastOp.retId>>})
\* The value is of the storage class the column declares.
OfColumnType(c, v) ==
  \/ ColType(c) = "TEXT" /\ v[1] = "text"
  \/ ColType(c) = "INTEGER" /\ v[1] = "integer"

\* C13 as stated: after insert(table, row) returned, selectOne by the
\* returned id yields a row that has, in every inserted column, exactly the
\* inserted value, whatever row the store accepted; the id is the one the
\* store assigned to the new row.
C13_RoundTripExact ==
  InsertedOk =>
    /\ SelectInserted # <<>>
    /\ \A c \in DOMAIN lastOp.data : SelectInserted[1][c] = lastOp.data[c]
    /\ lastOp.retId = I(IdName[autoinc[lastOp.table]])

\* C13 amended: the round trip is exact for the inserted values that are of
\* their column's declared type (a number-like text put in an INTEGER
\* column comes back as the integer); the row found is the new row, the
\* last of the table, and the id returned is the one the store assigned.
C13_RoundTrip ==
  InsertedOk =>
    /\ SelectInserted = <<db[lastOp.table][Len(db[lastOp.table])]>>
    /\ \A c \in DOMAIN lastOp.data :
         OfColumnType(c, lastOp.data[c]) => SelectInserted[1][c] = lastOp.data[c]
    /\ lastOp.retId = I(IdName[autoinc[lastOp.table]])
    /\ lastOp.retId = lastInsertRowId

\* A watch inserted with a text brand and an integer price, read back as is.
C13_Witness ==
  /\ InsertedOk /\ lastOp.table = "watches"
  /\ lastOp.data = [brand |-> T("4200"), price |-> I("4000")]
  /\ lastOp.retId = I("5")
  /\ SelectInserted # <<>>
  /\ SelectInserted[1]["brand"] = T("4200") /\ SelectInserted[1]["price"] = I("4000")

\* C14: update(table, partialRow, where, params) changes, in the rows that
\* match, only the columns named in partialRow and updated_at; the other
\* columns of those rows, the rows that do not match and the other tables
\* keep their values, and no row is added or removed.  When it returns, the
\* named columns of the matching rows hold the given values.
C14_PartialUpdate ==
  [][(lastOp'.op = "update" /\ stmts' # stmts) =>
       LET t == lastOp'.table
           named == DOMAIN lastOp'.data \cup {"updated_at"}
       IN /\ \A u \in Tables \ {t} : db'[u] = db[u]
          /\ Len(db'[t]) = Len(db[t])
          /\ \A i \in 1..Len(db[t]) :
               /\ ~Matches(db[t][i], lastOp'.pred) => db'[t][i] = db[t][i]
               /\ \A c \in Columns(t) \ named : db'[t][i][c] = db[t][i][c]
               /\ (Matches(db[t][i], lastOp'.pred) /\ ~lastOp'.threw) =>
                    \A c \in DOMAIN lastOp'.data :
                      OfColumnType(c, lastOp'.data[c]) => db'[t][i][c] = lastOp'.data[c]]_vars

\* update("watches", {price: 4000}, "id = ? AND status = ?", ["2", "available"])
\* one clock reading after the seeding: the Omega has the new price and
\* stamp and its old brand, the Rolex is as seeded.
C14_Witness ==
  /\ lastOp.op = "update" /\ lastOp.table = "watches" /\ lastOp.retBool
  /\ lastOp.data = [price |-> I("4000")]
  /\ lastOp.pred = {<<"id", T("2")>>, <<"status", T("available")>>}
  /\ db["watches"][2]["price"] = I("4000")
  /\ db["watches"][2]["brand"] = T("Omega")
  /\ db["watches"][2]["updated_at"] = Timestamp(1)
  /\ db["watches"][1] = Watch("1", "Rolex", "12500")

\* C15: selectOne returns the first of the rows that match the predicate,
\* returns the absent value (and does not throw) when no row matches, and
\* leaves the store as it was.
C15_SelectOne ==
  /\ [](lastOp.op = "selectOne" =>
          LET rows == db[lastOp.table]
              m == {i \in 1..Len(rows) : Matches(rows[i], lastOp.pred)}
          IN /\ ~lastOp.threw
             /\ (m = {}) => lastOp.retRow = <<>>
             /\ (m # {}) => \E i \in m : /\ \A k \in m : i <= k
                                         /\ lastOp.retRow = <<rows[i]>>)
  /\ [][(lastOp'.op = "selectOne" /\ stmts' # stmts) =>
          /\ db' = db
          /\ autoinc' = autoinc
          /\ lastInsertRowId' = lastInsertRowId]_vars

\* selectOne("watches", "status = ?", ["available"]) with several available
\* watches returns the first of them, the Rolex.
C15_Witness ==
  /\ lastOp.op = "selectOne" /\ lastOp.table = "watches"
  /\ lastOp.pred = {<<"status", T("available")>>}
  /\ Cardinality(Matching(db["watches"], lastOp.pred)) >= 2
  /\ lastOp.retRow = <<Watch("1", "Rolex", "12500")>>

\* The row leaves a NOT NULL column of t without a value / repeats, in a
\* UNIQUE column of t, the value of one of the rows.
LacksNotNull(t, data) == \E c \in NotNull(t) : c \notin DOMAIN data \/ data[c] = NULL
RepeatsUnique(t, data, rows) ==
  \E c \in Unique(t) \cap DOMAIN data : \E i \in 1..Len(rows) : rows[i][c] = data[c]

\* C16: an insert whose row violates a NOT NULL or a UNIQUE constraint
\* throws to the caller, has run its statement exactly once, and leaves the
\* rows of every table (and the id counters) as they were.
C16_FailedInsert ==
  [][(lastOp'.op = "insert" /\ stmts' # stmts
        /\ (\/ LacksNotNull(lastOp'.table, lastOp'.data)
            \/ RepeatsUnique(lastOp'.table, lastOp'.data, db[lastOp'.table])))
       => /\ lastOp'.threw
          /\ lastOp'.runs = 1
          /\ stmts' = stmts + 1
          /\ db' = db
          /\ autoinc' = autoinc
          /\ lastInsertRowId' = lastInsertRowId]_vars

\* insert("admin_users", {username: "admin", password_hash: "bob"}) next to
\* the seeded admin: thrown after one run, the table still holds one row.
C16_Witness ==
  /\ lastOp.op = "insert" /\ lastOp.table = "admin_users"
  /\ lastOp.data = [username |-> T("admin"), password_hash |-> T("bob")]
  /\ lastOp.threw /\ lastOp.runs = 1
  /\ db["admin_users"] = SeededDb["admin_users"]

\* C17: update (given at least one key) and delete return true exactly
\* when at least one row matched the predicate, and when no row matches
\* they return false and leave the store unchanged.
C17_ChangedFlag ==
  [][(lastOp'.op \in {"update", "delete"} /\ stmts' # stmts
        /\ (lastOp'.op = "update" => DOMAIN lastOp'.data # {}))
       => LET m == Matching(db[lastOp'.table], lastOp'.pred)
          IN /\ (m = {}) => (~lastOp'.threw /\ ~lastOp'.retBool /\ db' = db)
             /\ ~lastOp'.threw => (lastOp'.retBool <=> m # {})]_vars

\* C18 as stated: the columns named by the statement that insert or update
\* runs are exactly the keys the caller passed.
C18_ExactKeys ==
  lastOp.op \in {"insert", "update"} => lastOp.cols = DOMAIN lastOp.data

\* C18 amended: insert names exactly the caller's keys, and the other
\* columns of the new row hold the table's defaults; update names the
\* caller's keys and one more column, updated_at, whatever the table, so
\* that it fails on a table without that column; no key is ever dropped.
C18_KeysAndStamp ==
  /\ lastOp.op = "insert" =>
       /\ lastOp.cols = DOMAIN lastOp.data
       /\ ~lastOp.threw =>
            LET t == lastOp.table
                row == db[t][Len(db[t])]
            IN \A c \in Columns(t) \ DOMAIN lastOp.data :
                 \E now \in 0..dnow : row[c] = Default(c, autoinc[t], now)
  /\ lastOp.op = "update" =>
       /\ lastOp.cols = DOMAIN lastOp.data \cup {"updated_at"}
       /\ "updated_at" \notin Columns(lastOp.table) => lastOp.threw
       /\ lastOp.retBool =>
            \E i \in 1..Len(db[lastOp.table]) :
              db[lastOp.table][i]["updated_at"] = Timestamp(dnow)

\* update("watches", {brand: "4200"}, "id = ?", [9]) and an insert of only
\* brand and price, each after the clock moved: the update's statement
\* named brand and updated_at.
C18_Witness ==
  /\ lastOp.op = "update" /\ lastOp.table = "watches" /\ lastOp.retBool
  /\ lastOp.data = [brand |-> T("4200")]
  /\ lastOp.cols = {"brand", "updated_at"}
  /\ dnow = 1
  /\ \E i \in 1..Len(db["watches"]) :
       /\ db["watches"][i]["brand"] = T("4200")
       /\ db["watches"][i]["updated_at"] = Timestamp(1)

\* ---- /api/auth/login, authMiddleware
\* C19: a login request that carries the username and the password of an
\* admin user the store holds is answered with status 200 and a token.
C19_LoginSucceeds ==
  [][(lastReq'.route = "login" /\ lastReq' # lastReq
        /\ \E i \in 1..Len(db["admin_users"]) :
             /\ db["admin_users"][i]["username"] = T(lastReq'.username)
             /\ db["admin_users"][i]["password_hash"] = T(Btoa(lastReq'.password))
             /\ lastReq'.password # "")
       => (lastReq'.status = 200 /\ lastReq'.token)]_vars

\* The header carries a JWT signed with the key, not expired, whose subject
\* is the id of a row of admin_users.
ValidJwt(h, users) ==
  /\ h.scheme = "Bearer" /\ h.token = "jwt" /\ h.signed /\ h.exp # "past"
  /\ \E i \in 1..Len(users) : users[i]["id"] = h.sub

\* C20: a request reaches the handler behind authMiddleware only with a
\* valid JWT of an existing admin user; every other request is answered
\* 401 and the handler is not invoked.
C20_OnlyValidJwt ==
  [][(lastReq'.route = "protected" /\ lastReq' # lastReq)
       => IF ValidJwt(lastReq'.header, db["admin_users"])
          THEN lastReq'.invoked
          ELSE lastReq'.status = 401 /\ ~lastReq'.invoked]_vars

\* ---- watch routes
WatchRow(rows, id) == SelectOne(rows, {<<"id", I(id)>>})
DeleteSucceeds == wreq'.route = "delete" /\ wreq'.status = 200
\* The public routes do not show watch id: it is not in the list GET
\* /api/watches returned, and GET /api/watches/:id of it answered 404.
Hidden(id) ==
  /\ wreq.route = "list" => \A i \in 1..Len(wreq.ids) : wreq.ids[i] # I(id)
  /\ (wreq.route = "get" /\ wreq.id = id) => wreq.status = 404

\* C21 as stated: after DELETE /api/admin/watches/:id succeeded the row
\* is still there with status "deleted" and every other column as before,
\* and from then on neither public route returns the watch.
C21_SoftDelete ==
  /\ [][DeleteSucceeds =>
          LET old == WatchRow(db["watches"], wreq'.id)
              new == WatchRow(db'["watches"], wreq'.id)
          IN /\ new # <<>>
             /\ new[1]["status"] = T("deleted")
             /\ \A c \in Columns("watches") \ {"status"} : new[1][c] = old[1][c]]_vars
  /\ [](\A id \in softDeleted : Hidden(id))

\* C21 amended: after the DELETE succeeded the row is still there with
\* status "deleted"; its other columns are as before except updated_at,
\* which is stamped; no request removes the row; and the public routes do
\* not return the watch for as long as its status is "deleted", which
\* lasts until a PUT /api/admin/watches/:id gives it another status.
C21_SoftDeleteUntilRestored ==
  /\ [][DeleteSucceeds =>
          LET old == WatchRow(db["watches"], wreq'.id)
              new == WatchRow(db'["watches"], wreq'.id)
          IN /\ new # <<>>
             /\ new[1]["status"] = T("deleted")
             /\ \A c \in Columns("watches") \ {"status", "updated_at"} :
                  new[1][c] = old[1][c]
             /\ Len(db'["watches"]) = Len(db["watches"])]_vars
  /\ [](\A id \in softDeleted :
          /\ WatchRow(db["watches"], id) # <<>>
          /\ WatchRow(db["watches"], id)[1]["status"] = T("deleted") => Hidden(id))
  /\ [][\A id \in softDeleted :
          (/\ WatchRow(db["watches"], id)[1]["status"] = T("deleted")
           /\ WatchRow(db'["watches"], id)[1]["status"] # T("deleted"))
            => (wreq'.route = "put" /\ wreq'.id = id /\ "status" \in DOMAIN wreq'.body)]_vars

\* DELETE /api/admin/watches/2abc succeeded, then GET /api/watches/2abc:
\* 404, while the Omega's row is kept, marked deleted.
C21_Witness ==
  /\ softDeleted = {"2"}
  /\ wreq.route = "get" /\ wreq.id = "2" /\ wreq.status = 404
  /\ db["watches"][2]["brand"] = T("Omega")
  /\ db["watches"][2]["price"] = I("4200")
  /\ db["watches"][2]["status"] = T("deleted")

\* ---- POST /api/inquiries, /api/sell
\* Request r is received in this step, with body ibody'.
Received(r) == ireq[r].pc = "new" /\ ireq'[r].pc # "new"
\* The watch_id names a watch that is there and available.
NamesAvailableWatch(watchId) ==
  \E i \in 1..Len(db["watches"]) :
    /\ db["watches"][i]["id"] = Affinity("INTEGER", watchId)
    /\ db["watches"][i]["status"] = T("available")

\* C22: a POST /api/inquiries that lacks customer_name, customer_email or
\* message, or whose watch_id does not name an available watch, is
\* answered 400, and neither a row is inserted nor a notification sent.
C22_InvalidRejected ==
  [][\A r \in Reqs :
       (/\ Received(r) /\ ibody'.route = "inquiries"
        /\ \/ InquiryRequired \ ibody'.present # {}
           \/ ibody'.watch_id # NULL /\ ~NamesAvailableWatch(ibody'.watch_id))
         => /\ ireq'[r].status = 400
            /\ inquiries' = inquiries
            /\ sent' = sent]_vars

\* The rows of the table a route inserts into.
TableOf(route, inq, sell) == IF route = "inquiries" THEN inq ELSE sell
HasRow(rows, id) == \E i \in 1..Len(rows) : rows[i]["id"] = id
Answered(r) == ireq[r].pc \in {"done", "doneUnsent"} /\ ireq[r].status # 400

\* C25: in POST /api/inquiries and POST /api/sell the row is in its table
\* when the notification send is attempted; no row is removed afterwards,
\* whether the send succeeds or fails; and the request is answered 201 with
\* the id of its row in both cases.
C25_RowBeforeNotification ==
  /\ [](\A k \in 1..Len(sent) :
          HasRow(TableOf(sent[k].route, inquiries, sellSubmissions), sent[k].id))
  /\ [](\A r \in Reqs :
          Answered(r) =>
            /\ ireq[r].status = 201
            /\ HasRow(TableOf(ireq[r].route, inquiries, sellSubmissions), ireq[r].id)
            /\ \E k \in 1..Len(sent) : sent[k] = [route |-> ireq[r].route, id |-> ireq[r].id])
  /\ [][/\ Len(inquiries') >= Len(inquiries)
        /\ SubSeq(inquiries', 1, Len(inquiries)) = inquiries
        /\ Len(sellSubmissions') >= Len(sellSubmissions)
        /\ SubSeq(sellSubmissions', 1, Len(sellSubmissions)) = sellSubmissions
        /\ \A r \in Reqs :
             (ireq[r].pc = "sending" /\ ireq'[r].pc # "sending")
               => (ireq'[r].status = 201 /\ ireq'[r].id = ireq[r].id)]_vars

\* An inquiry and a sell submission whose notification sends both failed:
\* each answered 201 with id 1, and each table holds its row.
C25_Witness ==
  /\ ireq[1] = [pc |-> "doneUnsent", route |-> "inquiries", status |-> 201, id |-> 1]
  /\ ireq[2] = [pc |-> "doneUnsent", route |-> "sell", status |-> 201, id |-> 1]
  /\ Len(inquiries) = 1 /\ Len(sellSubmissions) = 1
  /\ Len(sent) = 2

\* ---- the queue, the retry wrapper and their callers
\* C23: for as long as the job a drain loop awaits has not completed, no
\* other job is started and isProcessingQueue stays true, however much
\* time passes: only the job's completion lets the loop go on, and the
\* calls made meanwhile only append to the pending jobs.
C23_HangStalls ==
  /\ [](\A c \in Calls : pc[c] = "awaitJob" => isProcessingQueue)
  /\ [][\A c \in Calls :
          (pc[c] = "awaitJob" /\ cur[c] \notin ended')
            => /\ pc'[c] = "awaitJob" /\ cur'[c] = cur[c]
               /\ started' = started
               /\ isProcessingQueue'
               /\ \/ messageQueue' = messageQueue
                  \/ \E j \in Calls : messageQueue' = Append(messageQueue, j)]_vars

\* Job 1 is still awaited two rate-limit intervals after it was started:
\* jobs 2 and 3, enqueued behind it, are pending and the flag is set.
C23_Witness ==
  /\ pc[1] = "awaitJob" /\ cur[1] = 1
  /\ elapsed = ElapsedCap
  /\ started = <<1>> /\ messageQueue = <<2, 3>>
  /\ isProcessingQueue

\* C24: two direct calls of sendWhatsAppWithRetry are not serialized: a
\* call, and a retry after its backoff, starts its provider send at once
\* whatever the other call is doing, so that both calls can have a send in
\* flight at the same time (C24_Witness).
C24_NotSerialized ==
  [][\A w \in RetryCallers :
       /\ (rpc[w] = "new" /\ rpc'[w] # "new" /\ maxRetries'[w] >= 1)
            => (rpc'[w] = "sending" /\ sends'[w] = 1)
       /\ (rpc[w] = "backoff" /\ rpc'[w] # "backoff")
            => (rpc'[w] = "sending" /\ sends'[w] = sends[w] + 1)]_vars

\* Both calls have a provider send in flight, each its first, with no time
\* passed between the two starts.
C24_Witness ==
  /\ rpc[1] = "sending" /\ rpc[2] = "sending"
  /\ sends[1] = 1 /\ sends[2] = 1
  /\ sinceFail[1] = 0 /\ sinceFail[2] = 0

\* C26: any two requests makeWatchChartsRequest issues, for calls made one
\* after the other or side by side, are at least RATE_LIMIT_DELAY apart.
C26_Throttle == issueGap >= RATE_LIMIT_DELAY

\* C27: between any two steps, when isProcessingQueue is false no job is
\* pending, and whenever a job is pending a drain loop is there to run it.
C27_NoStrandedJob ==
  /\ ~isProcessingQueue => messageQueue = <<>>
  /\ messageQueue # <<>> => Active # {}

\* Call 2 was made while call 1's loop was draining; the loop ran both
\* jobs and ended: the flag is false and nothing is pending.
C27_Witness ==
  /\ ~isProcessingQueue /\ messageQueue = <<>>
  /\ owners = {1} /\ started = <<1, 2>> /\ ended = {1, 2}
  /\ pc[1] = "returned" /\ pc[2] = "returned"

\* C29: a call of sendWhatsAppWithRetry with maxRetries <= 0 makes no
\* provider call and no wait, returns no result, and throws the aggregate
\* error with lastError still null (no underlying message to report).
C29_NoAttempts ==
  \A w \in RetryCallers :
    (rpc[w] # "new" /\ maxRetries[w] <= 0)
      => /\ rpc[w] = "threw"
         /\ sends[w] = 0
         /\ waitTimes[w] = <<>> /\ gaps[w] = <<>>
         /\ lastError[w] = 0 /\ thrown[w] = 0
         /\ result[w] = 0

\* Caller 1 passed 0 and caller 2 passed -1: both threw without a send.
C29_Witness ==
  /\ rpc[1] = "threw" /\ maxRetries[1] = 0 /\ sends[1] = 0
  /\ rpc[2] = "threw" /\ maxRetries[2] = -1 /\ sends[2] = 0

\* C28: when sendBulkWhatsAppMessages returns, its results hold an entry
\* for every recipient: success = true for a recipient whose send
\* resolved, success = false for a recipient whose send failed.
C28_BulkResults ==
  BulkReturned =>
    \A c \in BulkJobs :
      /\ outcome[c] = "ok" => c \in SuccessEntries
      /\ outcome[c] # "ok" => c \in FailureEntries

====
